---- MODULE Spec2Model ----
(***************************************************************************)
(* rainfall/web.py: the per-connection protocol object HTTPServer, the     *)
(* dispatch coroutine _call_handler and the handler adapter                *)
(* HTTPHandler.__call__, as a state machine over the callbacks the asyncio *)
(* event loop runs one at a time.                                          *)
(*                                                                         *)
(* The loop, the transport and the timer handle are asyncio's.  The loop   *)
(* keeps the callbacks that are ready to run in a FIFO queue (ready) and   *)
(* runs the head; call_soon appends, and so does an I/O event or a due     *)
(* timer, between any two callbacks.  close() is idempotent, stops reading *)
(* and schedules connection_lost; write() on a closed transport is         *)
(* dropped; cancel() removes a handle that has not run yet.                *)
(*                                                                         *)
(* Handler faults are instances of Exception, the class line 109 names.    *)
(***************************************************************************)
EXTENDS Integers, Sequences, FiniteSets, TLC

VARIABLES handlers, now, ready, transport, h_timeout, lost, tasks, wire, stdout, calls

vars == <<handlers, now, ready, transport, h_timeout, lost, tasks, wire, stdout, calls>>

(* ------------------------------ bounds -------------------------------- *)
MaxConns == 2
MaxChunks == 2
MaxPathLen == 3
MaxRoutes == 2
MaxAcceptTime == 1

(* ------------------------- program constants -------------------------- *)
TIMEOUT == 5
OK == 200
NOT_FOUND == 404
INTERNAL_SERVER_ERROR == 500

MaxTime == MaxAcceptTime + TIMEOUT

(* http.client.responses: the reason phrase of every registered code.     *)
responses ==
    [code \in {OK, 403, NOT_FOUND, INTERNAL_SERVER_ERROR} |->
        CASE code = OK -> "OK"
          [] code = 403 -> "Forbidden"
          [] code = NOT_FOUND -> "Not Found"
          [] code = INTERNAL_SERVER_ERROR -> "Internal Server Error"]

(* ------------------------------ strings ------------------------------- *)
Digits == {"1"}
Alphabet == {"/", "a", "?"} \cup Digits

RECURSIVE SeqsUpTo(_, _)
SeqsUpTo(S, n) ==
    IF n = 0 THEN {<<>>}
    ELSE LET shorter == SeqsUpTo(S, n - 1)
         IN  shorter \cup {Append(s, x) : s \in shorter, x \in S}

(* str.split('?')[0]: the characters before the first '?'.                 *)
RECURSIVE StripQuery(_)
StripQuery(s) ==
    IF s = <<>> \/ Head(s) = "?" THEN <<>>
    ELSE <<Head(s)>> \o StripQuery(Tail(s))

(* --------------------------- route patterns --------------------------- *)
Lit(ch) == [kind |-> "lit", ch |-> ch, name |-> ""]
Group(name) == [kind |-> "digits", ch |-> "", name |-> name]

NoMatch == [matched |-> FALSE, groupdict |-> {}]

RECURSIVE LeadingDigits(_)
LeadingDigits(s) ==
    IF s = <<>> \/ Head(s) \notin Digits THEN 0 ELSE 1 + LeadingDigits(Tail(s))

(* re.match(pattern, path): the pattern is tried at the start of the path  *)
(* only, and the match may end anywhere.  A group (?P<name>\d+) is greedy  *)
(* and gives back digits while the rest of the pattern fails.              *)
RECURSIVE re_from(_, _, _)
RECURSIVE re_group(_, _, _, _)
re_group(pattern, s, groups, k) ==
    IF k = 0 THEN NoMatch
    ELSE LET rest == re_from(Tail(pattern), SubSeq(s, k + 1, Len(s)),
                             groups \cup {<<Head(pattern).name, SubSeq(s, 1, k)>>})
         IN  IF rest.matched THEN rest ELSE re_group(pattern, s, groups, k - 1)

re_from(pattern, s, groups) ==
    IF pattern = <<>> THEN [matched |-> TRUE, groupdict |-> groups]
    ELSE IF Head(pattern).kind = "lit"
         THEN IF s # <<>> /\ Head(s) = Head(pattern).ch
              THEN re_from(Tail(pattern), Tail(s), groups)
              ELSE NoMatch
         ELSE re_group(pattern, s, groups, LeadingDigits(s))

re_match(pattern, path) == re_from(pattern, path, {})

(* ------------------------------ handlers ------------------------------ *)
(* A handler object: is_coroutine is what line 46 reads off its handle.    *)
H1 == [name |-> "H1", is_coroutine |-> FALSE]
H2 == [name |-> "H2", is_coroutine |-> TRUE]
Handlers == {H1, H2}

RootPattern == <<Lit("/")>>
APattern == <<Lit("/"), Lit("a")>>
IdPattern == <<Lit("/"), Group("id")>>
Patterns == {RootPattern, APattern, IdPattern}

(* What handle() may do: return None, a str, an HTTPError carrying any     *)
(* integer code, a value of another type (falsy 0 or truthy 42), or raise. *)
Value(type, text, num) == [type |-> type, text |-> text, num |-> num]
None == Value("NoneType", "", 0)
Raise == Value("raise", "", 0)
ErrorCodes == {403, 799}
HandleResults ==
    {None, Raise, Value("str", "", 0), Value("str", "hi", 0),
     Value("int", "", 0), Value("int", "", 42)}
    \cup {Value("HTTPError", "", code) : code \in ErrorCodes}

(* bool(handler_result), line 51                                          *)
truthy(v) ==
    CASE v.type = "NoneType" -> FALSE
      [] v.type = "str" -> v.text # ""
      [] v.type = "int" -> v.num # 0
      [] OTHER -> TRUE

(* Line 46-49: a coroutine handle gets the captures, a plain one does not. *)
handle_kwargs(handler, kwargs) == IF handler.is_coroutine THEN kwargs ELSE {}

(* HTTPHandler.__call__ once handle() has ended with handler_result.       *)
Returned(code, body) == [raised |-> FALSE, code |-> code, body |-> body]
Raised == [raised |-> TRUE, code |-> 0, body |-> ""]

(* A __call__ that forgets line 55: the text never becomes the body.       *)
classify_drops_text(handler_result) ==
    IF handler_result.type = "raise" THEN Raised
    ELSE IF truthy(handler_result)
         THEN IF handler_result.type = "HTTPError"
              THEN Returned(handler_result.num, "")
              ELSE IF handler_result.type = "str"
                   THEN Returned(OK, "")
                   ELSE Raised
         ELSE Returned(OK, "")

classify(handler_result) ==
    IF handler_result.type = "raise" THEN Raised
    ELSE IF truthy(handler_result)
         THEN IF handler_result.type = "HTTPError"
              THEN Returned(handler_result.num, "")
              ELSE IF handler_result.type = "str"
                   THEN Returned(OK, handler_result.text)
                   ELSE Raised
         ELSE Returned(OK, "")

(* ------------------------- request and response ----------------------- *)
HTTPRequest(data) == [method |-> data[1], path |-> data[2]]
HTTPResponse == [code |-> OK, body |-> ""]
compose(response) == <<response.code, response.body>>

(* A fallback page without the reason phrase.                              *)
fallback_without_reason(code) == "<h1>" \o ToString(code) \o "</h1>"

(* Line 118: the page of a response whose code is not 200.                 *)
fallback_body(code) == "<h1>" \o ToString(code) \o " " \o responses[code] \o "</h1>"

(* The for loop of _call_handler: the index of the first entry, in the     *)
(* iteration order of _handlers, whose pattern matches; 0 is the else.     *)
RECURSIVE first_match(_, _, _)
(* A loop that does not break: the last matching entry wins.               *)
last_match(table, path, i) ==
    LET matching == {j \in i .. Len(table) : re_match(table[j].pattern, path).matched}
    IN  IF matching = {} THEN 0 ELSE CHOOSE j \in matching : \A k \in matching : k <= j

first_match(table, path, i) ==
    IF i > Len(table) THEN 0
    ELSE IF re_match(table[i].pattern, path).matched THEN i
         ELSE first_match(table, path, i + 1)

route(request) == first_match(handlers, StripQuery(request.path), 1)

(* ------------------------------- state -------------------------------- *)
Conns == 1 .. MaxConns

NewTask(request) ==
    [pc |-> "scheduled", request |-> request, entry |-> 0, kwargs |-> {},
     result |-> None, response |-> HTTPResponse, exc |-> "", written |-> "no"]

Tables ==
    {t \in SeqsUpTo([pattern : Patterns, handler : Handlers], MaxRoutes) :
        \A i, j \in 1 .. Len(t) : t[i].pattern = t[j].pattern => i = j}

Start ==
    /\ now = 0
    /\ ready = <<>>
    /\ transport = [c \in Conns |-> "none"]
    /\ h_timeout = [c \in Conns |-> [state |-> "none", when |-> 0]]
    /\ lost = [c \in Conns |-> FALSE]
    /\ tasks = [c \in Conns |-> <<>>]
    /\ wire = [c \in Conns |-> <<>>]
    /\ stdout = [c \in Conns |-> <<>>]
    /\ calls = [c \in Conns |-> [write |-> 0, close |-> 0, cancel |-> 0, eof |-> 0]]

(* A callback in the loop's queue.                                         *)
Handle(fn, c, i, data) == [fn |-> fn, c |-> c, i |-> i, data |-> data]
EOF == <<>>
Running(fn, c, i) ==
    /\ ready # <<>>
    /\ Head(ready).fn = fn
    /\ Head(ready).c = c
    /\ Head(ready).i = i
Queued(fn, c, i) ==
    \E k \in 1 .. Len(ready) : ready[k].fn = fn /\ ready[k].c = c /\ ready[k].i = i

(* A close() that leaves the reader callback in the queue.                 *)
close_keeps_reading(c, q) ==
    IF transport[c] = "open" THEN Append(q, Handle("connection_lost", c, 0, <<>>)) ELSE q

(* A close() that stops the reading of every connection.                  *)
close_all_readers(c, q) ==
    IF transport[c] = "open"
    THEN Append(SelectSeq(q, LAMBDA h : h.fn # "_read_ready"),
                Handle("connection_lost", c, 0, <<>>))
    ELSE q

(* transport.close() as it leaves the queue q: the first call stops the    *)
(* reading and schedules connection_lost, a later call changes nothing.    *)
close(c, q) ==
    IF transport[c] = "open"
    THEN Append(SelectSeq(q, LAMBDA h : ~(h.fn = "_read_ready" /\ h.c = c)),
                Handle("connection_lost", c, 0, <<>>))
    ELSE q

(* h_timeout.cancel(): a handle that has not run yet never runs.           *)
cancel(timer) ==
    IF timer.state \in {"pending", "due"} THEN [timer EXCEPT !.state = "cancelled"] ELSE timer
uncalled(c, q) == SelectSeq(q, LAMBDA h : ~(h.fn = "timeout" /\ h.c = c))

connection_made(c) ==
    /\ transport[c] = "none"
    /\ transport' = [transport EXCEPT ![c] = "open"]
    /\ h_timeout' = [h_timeout EXCEPT ![c] = [state |-> "pending", when |-> now + TIMEOUT]]
    /\ UNCHANGED <<handlers, now, ready, lost, tasks, wire, stdout, calls>>

(* call_later's handle comes due and joins the queue.                      *)
call_later(c) ==
    /\ h_timeout[c].state = "pending"
    /\ now >= h_timeout[c].when
    /\ h_timeout' = [h_timeout EXCEPT ![c].state = "due"]
    /\ ready' = Append(ready, Handle("timeout", c, 0, <<>>))
    /\ UNCHANGED <<handlers, now, transport, lost, tasks, wire, stdout, calls>>

(* A timeout that does not close the transport.                           *)
timeout_without_close(c) ==
    /\ Running("timeout", c, 0)
    /\ h_timeout' = [h_timeout EXCEPT ![c].state = "fired"]
    /\ ready' = Tail(ready)
    /\ UNCHANGED <<handlers, now, transport, lost, tasks, wire, stdout, calls>>

(* A timeout that also cancels the connection's tasks: their pending steps *)
(* never run and their done callbacks are scheduled.                       *)
timeout_cancels_task(c) ==
    LET live(i) == tasks[c][i].pc \in {"scheduled", "suspended"}
        cancelled == SelectSeq([i \in 1 .. Len(tasks[c]) |-> i], live)
        steps == SelectSeq(Tail(ready), LAMBDA h : ~(h.fn = "_call_handler" /\ h.c = c))
    IN  /\ Running("timeout", c, 0)
        /\ h_timeout' = [h_timeout EXCEPT ![c].state = "fired"]
        /\ transport' = [transport EXCEPT ![c] = "closed"]
        /\ tasks' = [tasks EXCEPT ![c] =
               [i \in 1 .. Len(tasks[c]) |->
                   IF live(i) THEN [tasks[c][i] EXCEPT !.pc = "done", !.exc = "CancelledError"]
                   ELSE tasks[c][i]]]
        /\ ready' = close(c, steps) \o
               [k \in 1 .. Len(cancelled) |-> Handle("_finalize_request", c, cancelled[k], <<>>)]
        /\ calls' = [calls EXCEPT ![c].close = @ + 1]
        /\ UNCHANGED <<handlers, now, lost, wire, stdout>>

(* Line 73-75: the timer's callback closes the transport.                  *)
timeout(c) ==
    /\ Running("timeout", c, 0)
    /\ h_timeout' = [h_timeout EXCEPT ![c].state = "fired"]
    /\ transport' = [transport EXCEPT ![c] = "closed"]
    /\ ready' = close(c, Tail(ready))
    /\ calls' = [calls EXCEPT ![c].close = @ + 1]
    /\ UNCHANGED <<handlers, now, lost, tasks, wire, stdout>>

(* The socket of an open transport becomes readable: a chunk of bytes, or  *)
(* the end of the peer's stream.  The loop polls a socket again only once  *)
(* the reader callback of the last poll has run.                           *)
_read_ready(c, data) ==
    /\ transport[c] = "open"
    /\ ~Queued("_read_ready", c, 0)
    /\ ready' = Append(ready, Handle("_read_ready", c, 0, data))
    /\ UNCHANGED <<handlers, now, transport, h_timeout, lost, tasks, wire, stdout, calls>>

(* A data_received that arms the timer again for every chunk.              *)
data_received_restarts_timer(c) ==
    /\ Running("_read_ready", c, 0)
    /\ Head(ready).data # EOF
    /\ tasks' = [tasks EXCEPT ![c] = Append(@, NewTask(HTTPRequest(Head(ready).data)))]
    /\ h_timeout' = [h_timeout EXCEPT ![c] = [state |-> "pending", when |-> now + TIMEOUT]]
    /\ ready' = Append(uncalled(c, Tail(ready)),
                       Handle("_call_handler", c, Len(tasks[c]) + 1, <<>>))
    /\ UNCHANGED <<handlers, now, transport, lost, wire, stdout, calls>>

(* Line 85-89: a chunk becomes a request and a task that dispatches it.    *)
data_received(c) ==
    /\ Running("_read_ready", c, 0)
    /\ Head(ready).data # EOF
    /\ tasks' = [tasks EXCEPT ![c] = Append(@, NewTask(HTTPRequest(Head(ready).data)))]
    /\ ready' = Append(Tail(ready), Handle("_call_handler", c, Len(tasks[c]) + 1, <<>>))
    /\ UNCHANGED <<handlers, now, transport, h_timeout, lost, wire, stdout, calls>>

(* asyncio.Protocol.eof_received is not overridden: the transport closes.  *)
eof_received(c) ==
    /\ Running("_read_ready", c, 0)
    /\ Head(ready).data = EOF
    /\ transport' = [transport EXCEPT ![c] = "closed"]
    /\ ready' = close(c, Tail(ready))
    /\ calls' = [calls EXCEPT ![c].eof = @ + 1]
    /\ UNCHANGED <<handlers, now, h_timeout, lost, tasks, wire, stdout>>

(* A done callback that cancels the timer and forgets to close.            *)
finalize_without_close(c, i) ==
    /\ Running("_finalize_request", c, i)
    /\ tasks' = [tasks EXCEPT ![c][i].pc = "finalized"]
    /\ h_timeout' = [h_timeout EXCEPT ![c] = cancel(@)]
    /\ ready' = uncalled(c, Tail(ready))
    /\ calls' = [calls EXCEPT ![c].cancel = @ + 1]
    /\ UNCHANGED <<handlers, now, transport, lost, wire, stdout>>

(* Line 91-93: the task's done callback closes and cancels the timer.      *)
_finalize_request(c, i) ==
    /\ Running("_finalize_request", c, i)
    /\ tasks' = [tasks EXCEPT ![c][i].pc = "finalized"]
    /\ transport' = [transport EXCEPT ![c] = "closed"]
    /\ h_timeout' = [h_timeout EXCEPT ![c] = cancel(@)]
    /\ ready' = uncalled(c, close(c, Tail(ready)))
    /\ calls' = [calls EXCEPT ![c].close = @ + 1, ![c].cancel = @ + 1]
    /\ UNCHANGED <<handlers, now, lost, wire, stdout>>

connection_lost(c) ==
    /\ Running("connection_lost", c, 0)
    /\ lost' = [lost EXCEPT ![c] = TRUE]
    /\ h_timeout' = [h_timeout EXCEPT ![c] = cancel(@)]
    /\ ready' = uncalled(c, Tail(ready))
    /\ calls' = [calls EXCEPT ![c].cancel = @ + 1]
    /\ UNCHANGED <<handlers, now, transport, tasks, wire, stdout>>

(* The loop's clock; a timer that is due joins the queue before the clock  *)
(* moves on.                                                               *)
Tick ==
    /\ now < MaxTime
    /\ \A c \in Conns : h_timeout[c].state = "pending" => now < h_timeout[c].when
    /\ now' = now + 1
    /\ UNCHANGED <<handlers, ready, transport, h_timeout, lost, tasks, wire, stdout, calls>>

(* ---------------------------- _call_handler --------------------------- *)
(* A loop whose except branch leaves response.code as it was.              *)
status_without_except(entry, outcome) ==
    IF entry = 0 THEN NOT_FOUND
    ELSE IF outcome.raised THEN HTTPResponse.code
    ELSE outcome.code

(* A loop without its else branch: no match leaves response.code alone.    *)
status_without_else(entry, outcome) ==
    IF entry = 0 THEN HTTPResponse.code
    ELSE IF outcome.raised THEN INTERNAL_SERVER_ERROR
    ELSE outcome.code

(* response.code after the for loop: the else branch, the except branch or *)
(* the code the handler returned.                                          *)
status(entry, outcome) ==
    IF entry = 0 THEN NOT_FOUND
    ELSE IF outcome.raised THEN INTERNAL_SERVER_ERROR
    ELSE outcome.code

(* Lines 105-124 for task i of connection c, from the point where the      *)
(* loop has ended.  entry = 0: the else branch of the for loop.  Otherwise *)
(* the handler of that entry was awaited and handle() ended with           *)
(* handler_result.  A code without a reason phrase makes line 118 raise    *)
(* KeyError outside the try block: the task ends there, with no write.     *)
respond(c, i, entry, kwargs, handler_result) ==
    LET outcome == classify(handler_result)
        code == status(entry, outcome)
        body == IF entry = 0 \/ outcome.raised THEN HTTPResponse.body ELSE outcome.body
        exc == entry # 0 /\ outcome.raised
        held == [tasks[c][i] EXCEPT !.entry = entry, !.kwargs = kwargs,
                                    !.result = IF entry = 0 THEN None ELSE handler_result]
    IN  IF code # OK /\ code \notin DOMAIN responses
        THEN /\ tasks' = [tasks EXCEPT ![c][i] =
                    [held EXCEPT !.pc = "done", !.exc = "KeyError",
                                 !.response = [code |-> code, body |-> body]]]
             /\ UNCHANGED <<wire, stdout, calls>>
        ELSE LET response == [code |-> code,
                              body |-> IF code # OK THEN fallback_body(code) ELSE body]
             IN  /\ tasks' = [tasks EXCEPT ![c][i] =
                        [held EXCEPT !.pc = "done", !.response = response,
                                     !.exc = IF exc THEN "Exception" ELSE "",
                                     !.written = IF transport[c] = "open"
                                                 THEN "sent" ELSE "dropped"]]
                 /\ calls' = [calls EXCEPT ![c].write = @ + 1]
                 /\ wire' = [wire EXCEPT ![c] =
                        IF transport[c] = "open" THEN Append(@, compose(response)) ELSE @]
                 /\ stdout' = [stdout EXCEPT ![c] =
                        @ \o <<[kind |-> "access", method |-> held.request.method,
                                path |-> held.request.path, code |-> code]>>
                          \o IF exc THEN <<[kind |-> "traceback", method |-> held.request.method,
                                            path |-> held.request.path, code |-> code]>>
                             ELSE <<>>]

(* The task's first step, running to the end of the coroutine: no entry    *)
(* matches, or the matched handler ends without suspending.  The task's    *)
(* done callback is scheduled.                                             *)
_call_handler(c, i, handler_result) ==
    /\ Running("_call_handler", c, i)
    /\ tasks[c][i].pc = "scheduled"
    /\ LET entry == route(tasks[c][i].request)
       IN  IF entry = 0
           THEN respond(c, i, 0, {}, None)
           ELSE respond(c, i, entry,
                        handle_kwargs(handlers[entry].handler,
                            re_match(handlers[entry].pattern,
                                     StripQuery(tasks[c][i].request.path)).groupdict),
                        handler_result)
    /\ ready' = Append(Tail(ready), Handle("_finalize_request", c, i, <<>>))
    /\ UNCHANGED <<handlers, now, transport, h_timeout, lost>>

(* The task's first step when the matched handle is a coroutine that       *)
(* suspends: the task waits inside line 47.                                *)
suspend(c, i) ==
    /\ Running("_call_handler", c, i)
    /\ tasks[c][i].pc = "scheduled"
    /\ LET entry == route(tasks[c][i].request)
       IN  /\ entry # 0
           /\ handlers[entry].handler.is_coroutine
           /\ tasks' = [tasks EXCEPT ![c][i] =
                  [tasks[c][i] EXCEPT !.pc = "suspended", !.entry = entry,
                      !.kwargs = handle_kwargs(handlers[entry].handler,
                          re_match(handlers[entry].pattern,
                                   StripQuery(tasks[c][i].request.path)).groupdict)]]
    /\ ready' = Tail(ready)
    /\ UNCHANGED <<handlers, now, transport, h_timeout, lost, wire, stdout, calls>>

(* What the suspended handle waits for is there: the task is scheduled     *)
(* again.                                                                  *)
wakeup(c, i) ==
    /\ i \in 1 .. Len(tasks[c])
    /\ tasks[c][i].pc = "suspended"
    /\ ~Queued("_call_handler", c, i)
    /\ ready' = Append(ready, Handle("_call_handler", c, i, <<>>))
    /\ UNCHANGED <<handlers, now, transport, h_timeout, lost, tasks, wire, stdout, calls>>

(* The woken handle ends and the task runs to the end.                     *)
resume(c, i, handler_result) ==
    /\ Running("_call_handler", c, i)
    /\ tasks[c][i].pc = "suspended"
    /\ respond(c, i, tasks[c][i].entry, tasks[c][i].kwargs, handler_result)
    /\ ready' = Append(Tail(ready), Handle("_finalize_request", c, i, <<>>))
    /\ UNCHANGED <<handlers, now, transport, h_timeout, lost>>

(* ---------------------------- specifications -------------------------- *)
Methods == {"GET"}
Paths == {p \in SeqsUpTo(Alphabet, MaxPathLen) : p # <<>> /\ Head(p) = "/"}
Chunks == Methods \X Paths

Received(c) == Len(tasks[c])

(* One step of the event loop, for connections CS that receive at most K   *)
(* chunks each, drawn from DS, with handle() results from RS.              *)
Step(CS, K, DS, RS) ==
    \/ \E c \in CS : now <= MaxAcceptTime /\ connection_made(c)
    \/ \E c \in CS : call_later(c)
    \/ \E c \in CS : timeout(c)
    \/ \E c \in CS, data \in DS : Received(c) < K /\ _read_ready(c, data)
    \/ \E c \in CS : _read_ready(c, EOF)
    \/ \E c \in CS : data_received(c)
    \/ \E c \in CS : eof_received(c)
    \/ \E c \in CS, i \in 1 .. K, r \in RS : _call_handler(c, i, r)
    \/ \E c \in CS, i \in 1 .. K : suspend(c, i)
    \/ \E c \in CS, i \in 1 .. K : wakeup(c, i)
    \/ \E c \in CS, i \in 1 .. K, r \in RS : resume(c, i, r)
    \/ \E c \in CS, i \in 1 .. K : _finalize_request(c, i)
    \/ \E c \in CS : connection_lost(c)
    \/ Tick

(* The connection lifecycle: every interleaving of the callbacks of one    *)
(* connection that receives up to MaxChunks chunks.                        *)
LifecycleTable ==
    <<[pattern |-> APattern, handler |-> H1], [pattern |-> RootPattern, handler |-> H2]>>
LifecyclePaths == {<<"/", "a">>, <<"/">>, <<"a">>}
LifecycleResults == {Value("str", "hi", 0), Raise, Value("HTTPError", "", 799)}

Init == Start /\ handlers = LifecycleTable
Next == Step({1}, MaxChunks, Methods \X LifecyclePaths, LifecycleResults)
Spec == Init /\ [][Next]_vars

(* The lifecycle under a loop that keeps running: run_forever takes the    *)
(* callback at the head of its queue, its clock advances and a timer whose *)
(* deadline is reached joins the queue.  Nothing makes the peer send or a  *)
(* suspended handler wake up.                                              *)
ForeverPaths == {<<"/">>}
ForeverResults == {Value("str", "hi", 0), Value("HTTPError", "", 799)}
NextForever == Step({1}, MaxChunks, Methods \X ForeverPaths, ForeverResults)
_run_once ==
    \E c \in Conns :
        \/ timeout(c)
        \/ data_received(c)
        \/ eof_received(c)
        \/ connection_lost(c)
        \/ \E i \in 1 .. MaxChunks :
              \/ \E r \in ForeverResults : _call_handler(c, i, r) \/ resume(c, i, r)
              \/ suspend(c, i)
              \/ _finalize_request(c, i)
run_forever ==
    /\ WF_vars(_run_once)
    /\ WF_vars(Tick)
    /\ \A c \in Conns : WF_vars(call_later(c))
SpecForever == Init /\ [][NextForever]_vars /\ run_forever

(* Concurrent connections: every interleaving of the callbacks of two     *)
(* connections that each receive one chunk.                                *)
Pair == {1, 2}
SharedPaths == {<<"/">>}
SharedResults == {Value("str", "hi", 0), Raise}
NextShared == Step(Pair, 1, Methods \X SharedPaths, SharedResults)
SpecShared == Init /\ [][NextShared]_vars

(* Dispatch: one request on one connection, with every table, path and    *)
(* handle() result, before the connection's timer is due.                  *)
InitDispatch == Start /\ handlers \in Tables
NextDispatch ==
    \/ connection_made(1)
    \/ \E data \in Chunks : Received(1) = 0 /\ _read_ready(1, data)
    \/ _read_ready(1, EOF)
    \/ data_received(1)
    \/ eof_received(1)
    \/ \E r \in HandleResults : _call_handler(1, 1, r)
    \/ suspend(1, 1)
    \/ wakeup(1, 1)
    \/ \E r \in HandleResults : resume(1, 1, r)
    \/ _finalize_request(1, 1)
    \/ connection_lost(1)
SpecDispatch == InitDispatch /\ [][NextDispatch]_vars

(* ------------------------------- claims ------------------------------- *)
Task(c) == {tasks[c][i] : i \in 1 .. Len(tasks[c])}
Ended(t) == t.pc \in {"done", "finalized"}
Fired(c) == h_timeout[c].state = "fired"

(* C1: at most one response is composed and written to the transport of a  *)
(* connection, whatever events happen on it.                               *)
C1_at_most_one_response == \A c \in Conns : Len(wire[c]) <= 1

(* C2: transport.close() is executed exactly once over a connection's      *)
(* lifetime: never more than once, and once when the connection has ended  *)
(* by the completion of its dispatch or by the timeout.  Stated for the    *)
(* connections that received a single chunk.                               *)
C2_close_exactly_once ==
    \A c \in Conns :
        Len(tasks[c]) <= 1 =>
            /\ calls[c].close <= 1
            /\ (Fired(c) \/ \E t \in Task(c) : t.pc = "finalized") => calls[c].close = 1

(* C3: once the timeout has fired on a connection, nothing more is written *)
(* to its transport, also when a dispatch task in flight ends later.       *)
C3_no_write_after_timeout ==
    [][\A c \in Conns : Fired(c) => wire'[c] = wire[c]]_vars

(* A task that was in flight when the timeout closed the transport wrote   *)
(* its response afterwards.                                                *)
C3_witness ==
    \E c \in Conns :
        /\ Fired(c)
        /\ calls[c].eof = 0
        /\ Len(tasks[c]) = 1
        /\ tasks[c][1].pc = "done"
        /\ tasks[c][1].written = "dropped"

Silent(c) ==
    /\ transport[c] = "closed"
    /\ tasks[c] = <<>>
    /\ wire[c] = <<>>
    /\ calls[c].write = 0
    /\ stdout[c] = <<>>

(* C10: a connection on which no bytes were received when its timer fires  *)
(* is closed by the timer, and then and ever after no data is received on  *)
(* it, nothing is written to it, no response is composed and nothing is    *)
(* logged.                                                                 *)
C10_silent_timeout ==
    /\ [](\A c \in Conns : (Fired(c) /\ tasks[c] = <<>>) => Silent(c))
    /\ [][\A c \in Conns : (Fired(c) /\ Silent(c)) => Silent(c)']_vars

(* The timer closed a connection that had received nothing and whose peer  *)
(* had not left.                                                           *)
C10_witness ==
    \E c \in Conns : Fired(c) /\ tasks[c] = <<>> /\ calls[c].eof = 0 /\ calls[c].close = 1

Started(t) == t.pc # "scheduled"
PathOf(t) == StripQuery(t.request.path)
Matching(t) ==
    {j \in 1 .. Len(handlers) : re_match(handlers[j].pattern, PathOf(t)).matched}

(* C4: dispatch invokes the handler of the first entry, in table order,    *)
(* whose pattern matches the path, and of no entry when none matches; an   *)
(* entry after the first matching one is never invoked.                    *)
C4_first_match_wins ==
    \A c \in Conns : \A t \in Task(c) :
        Started(t) =>
            IF Matching(t) = {} THEN t.entry = 0
            ELSE t.entry \in Matching(t) /\ \A j \in Matching(t) : t.entry <= j

(* Two entries match the path, the handler of the first one raised, and    *)
(* the task has ended.                                                     *)
C4_witness ==
    \E c \in Conns : \E t \in Task(c) :
        Ended(t) /\ t.entry = 1 /\ t.result = Raise /\ Matching(t) = {1, 2}

(* The pattern matches the whole of s, as re.fullmatch would.              *)
RECURSIVE full_match(_, _)
full_match(pattern, s) ==
    IF pattern = <<>> THEN s = <<>>
    ELSE IF Head(pattern).kind = "lit"
         THEN s # <<>> /\ Head(s) = Head(pattern).ch /\ full_match(Tail(pattern), Tail(s))
         ELSE \E k \in 1 .. LeadingDigits(s) :
                  full_match(Tail(pattern), SubSeq(s, k + 1, Len(s)))

(* C5: an entry is selected only when its pattern matches the whole of the *)
(* query-stripped path, and a path that no pattern matches in full gets    *)
(* 404.                                                                    *)
C5_full_path_match ==
    \A c \in Conns : \A t \in Task(c) :
        /\ (Started(t) /\ t.entry # 0) => full_match(handlers[t.entry].pattern, PathOf(t))
        /\ (Ended(t) /\ \A j \in 1 .. Len(handlers) :
                            ~full_match(handlers[j].pattern, PathOf(t)))
               => t.response.code = 404

(* C6: handle() receives the named captures of the matched pattern,        *)
(* whether it is a coroutine or a plain function.                          *)
C6_captures_forwarded ==
    \A c \in Conns : \A t \in Task(c) :
        (Started(t) /\ t.entry # 0) =>
            t.kwargs = re_match(handlers[t.entry].pattern, PathOf(t)).groupdict

(* C7: a handler that returns an HTTPError of code C gets a response       *)
(* written with code C and the fallback body of C.                         *)
C7_error_value_response ==
    \A c \in Conns : \A t \in Task(c) :
        (Ended(t) /\ t.entry # 0 /\ t.result.type = "HTTPError") =>
            /\ t.written # "no"
            /\ t.response.code = t.result.num
            /\ t.response.body =
                   "<h1>" \o ToString(t.result.num) \o " " \o responses[t.result.num] \o "</h1>"

InternalServerErrorPage == [code |-> 500, body |-> "<h1>500 Internal Server Error</h1>"]

(* C8: a handler that raises gets the response 500 with the fallback body  *)
(* written, the fault is recorded and its traceback printed, and the task  *)
(* ends without the fault leaving it.                                      *)
C8_fault_yields_500 ==
    \A c \in Conns : \A t \in Task(c) :
        (Started(t) /\ t.pc # "suspended" /\ t.entry # 0 /\ t.result = Raise) =>
            /\ Ended(t)
            /\ t.response = InternalServerErrorPage
            /\ t.exc = "Exception"
            /\ t.written # "no"
            /\ t.written = "sent" =>
                   \E k \in 1 .. Len(wire[c]) : wire[c][k] = compose(InternalServerErrorPage)
            /\ \E k \in 1 .. Len(stdout[c]) :
                   stdout[c][k].kind = "traceback" /\ stdout[c][k].code = 500

(* A handler raised and the response went out on the open transport.       *)
C8_witness ==
    \E c \in Conns : \E t \in Task(c) :
        Ended(t) /\ t.entry # 0 /\ t.result = Raise /\ t.written = "sent"

(* C9: a handler whose result is neither None, a str nor an HTTPError gets *)
(* the response 500 with the fallback body, and the fault is recorded.     *)
C9_unsupported_result_is_fault ==
    \A c \in Conns : \A t \in Task(c) :
        (Ended(t) /\ t.entry # 0 /\ t.result.type \notin {"NoneType", "str", "HTTPError", "raise"}) =>
            /\ t.response = InternalServerErrorPage
            /\ t.exc = "Exception"

(* C11: whenever the transport of a connection is closed, its timer is no  *)
(* longer waiting to fire: it has fired or it has been cancelled.          *)
C11_no_timer_on_closed_transport ==
    \A c \in Conns :
        transport[c] = "closed" => h_timeout[c].state \in {"fired", "cancelled"}

(* C12: a connection goes through its states once: at most one dispatch    *)
(* task is spawned on it, however many chunks arrive.                      *)
C12_one_dispatch_per_connection == \A c \in Conns : Len(tasks[c]) <= 1

AccessLines(c) == SelectSeq(stdout[c], LAMBDA line : line.kind = "access")
Completed(t) == Ended(t) /\ t.exc # "KeyError"

(* C13: a connection on which a dispatch task ran to its end prints        *)
(* exactly one access line, and the code in it is the code of the response *)
(* written for the connection.                                             *)
C13_one_access_line ==
    \A c \in Conns :
        (\E t \in Task(c) : Completed(t)) =>
            /\ Len(AccessLines(c)) = 1
            /\ \A t \in Task(c) : Completed(t) => AccessLines(c)[1].code = t.response.code

OnWire(c, code, body) == \E k \in 1 .. Len(wire[c]) : wire[c][k] = <<code, body>>

(* C14: when the handler returned a text, the response has code 200 and    *)
(* exactly that text as its body; when it returned no value, the response  *)
(* has code 200 and an empty body.                                         *)
C14_text_is_body ==
    \A c \in Conns : \A t \in Task(c) :
        (Ended(t) /\ t.entry # 0 /\ t.result.type \in {"str", "NoneType"}) =>
            /\ t.exc = ""
            /\ t.response.code = 200
            /\ t.response.body = (IF t.result.type = "str" THEN t.result.text ELSE "")
            /\ t.written # "no"
            /\ t.written = "sent" => OnWire(c, 200, t.response.body)

C14_witness ==
    \E t \in Task(1) :
        /\ t.result = Value("str", "hi", 0)
        /\ t.written = "sent"
        /\ OnWire(1, 200, "hi")

(* C15: a request whose query-stripped path matches no entry of the table, *)
(* the empty table included, gets code 404 and the body                    *)
(* <h1>404 Not Found</h1>, and no handler is invoked for it.               *)
C15_unmatched_is_404 ==
    \A c \in Conns : \A t \in Task(c) :
        (Started(t) /\ Matching(t) = {}) =>
            /\ Ended(t)
            /\ t.entry = 0 /\ t.kwargs = {} /\ t.result = None
            /\ t.exc = ""
            /\ t.response = [code |-> 404, body |-> "<h1>404 Not Found</h1>"]
            /\ t.written # "no"
            /\ t.written = "sent" => OnWire(c, 404, "<h1>404 Not Found</h1>")

C15_witness ==
    /\ handlers = <<>>
    /\ \E t \in Task(1) : t.written = "sent" /\ OnWire(1, 404, "<h1>404 Not Found</h1>")

HandlerBody(t) == IF t.result.type = "str" THEN t.result.text ELSE ""

(* C17: every response written has code 200 and the body the handler       *)
(* produced, or a code other than 200 and exactly the body                 *)
(* <h1>code reason</h1> of that code.                                      *)
C17_body_follows_code ==
    \A c \in Conns : \A k \in 1 .. Len(wire[c]) :
        LET code == wire[c][k][1]
            body == wire[c][k][2]
        IN  IF code = 200
            THEN \E t \in Task(c) :
                    /\ t.written = "sent" /\ t.entry # 0 /\ t.exc = ""
                    /\ body = HandlerBody(t)
            ELSE /\ code \in DOMAIN responses
                 /\ body = "<h1>" \o ToString(code) \o " " \o responses[code] \o "</h1>"

C17_witness ==
    \E t \in Task(1) :
        /\ t.result = Value("HTTPError", "", 403)
        /\ t.written = "sent"
        /\ wire[1] = << <<403, "<h1>403 Forbidden</h1>">> >>

TaskCallbacks(c) ==
    SelectSeq(ready, LAMBDA h : h.c = c /\ h.fn \in {"_call_handler", "_finalize_request"})

(* C18: the step in which the timer of a connection fires closes the       *)
(* transport and leaves every dispatch task as it was: the task, its       *)
(* queued step and its done callback stay, nothing is written or printed.  *)
C18_timeout_leaves_task ==
    [][\A c \in Conns :
        (~Fired(c) /\ Fired(c)') =>
            /\ transport'[c] = "closed"
            /\ tasks' = tasks
            /\ TaskCallbacks(c)' = TaskCallbacks(c)
            /\ UNCHANGED <<handlers, now, lost, wire, stdout>>]_vars

C18_witness ==
    /\ Fired(1)
    /\ calls[1].eof = 0
    /\ Len(tasks[1]) = 1
    /\ tasks[1][1].pc = "finalized"
    /\ tasks[1][1].written = "dropped"

Armed(c) == h_timeout[c].state \in {"pending", "due"}

(* C20: receiving data leaves the timer as it is; an armed timer keeps its *)
(* deadline and is never armed again; it is cancelled only by a task's     *)
(* done callback or by connection_lost; and the clock never passes the     *)
(* deadline of a pending timer, which closes the transport when it fires.  *)
C20_timer_not_restarted ==
    /\ [](\A c \in Conns :
            /\ h_timeout[c].state = "pending" => now <= h_timeout[c].when
            /\ Fired(c) => transport[c] = "closed" /\ now >= h_timeout[c].when)
    /\ [][\A c \in Conns :
            /\ Len(tasks'[c]) > Len(tasks[c]) => h_timeout'[c] = h_timeout[c]
            /\ h_timeout[c].state # "none" =>
                  /\ h_timeout'[c].when = h_timeout[c].when
                  /\ h_timeout'[c].state = "pending" => h_timeout[c].state = "pending"
            /\ (Armed(c) /\ h_timeout'[c].state = "cancelled") =>
                  \/ ~lost[c] /\ lost'[c]
                  \/ \E i \in 1 .. Len(tasks[c]) :
                        tasks[c][i].pc = "done" /\ tasks'[c][i].pc = "finalized"]_vars

C20_witness ==
    /\ Fired(1)
    /\ transport[1] = "closed"
    /\ Len(tasks[1]) = 1
    /\ tasks[1][1].pc = "suspended"

(* Everything the protocol instance and the transport of connection c      *)
(* hold, with the callbacks of c that wait in the loop's queue.            *)
ConnState(c) ==
    <<transport[c], h_timeout[c], lost[c], tasks[c], wire[c], stdout[c], calls[c],
      SelectSeq(ready, LAMBDA h : h.c = c)>>

(* C16: a step changes the state of at most one connection (transport,     *)
(* timer, tasks with their responses, output, queued callbacks), and no    *)
(* step changes the route table.                                           *)
C16_connections_are_independent ==
    [][/\ handlers' = handlers
       /\ \A c, d \in Conns :
            c # d => (ConnState(c)' = ConnState(c) \/ ConnState(d)' = ConnState(d))]_vars

C16_witness ==
    /\ Fired(1)
    /\ \E t \in Task(1) : t.exc = "Exception" /\ t.written = "dropped"
    /\ \E t \in Task(2) : t.pc = "finalized" /\ t.written = "sent"
    /\ OnWire(2, 200, "hi")

(* C19: under a loop that keeps running and a clock that advances, every   *)
(* accepted connection is eventually closed.                               *)
C19_eventually_closed ==
    \A c \in Conns : (transport[c] = "open") ~> (transport[c] = "closed")

C19_witness ==
    /\ transport[1] = "closed"
    /\ calls[1].eof = 0
    /\ ~Fired(1)
    /\ \E t \in Task(1) : t.exc = "KeyError" /\ t.pc = "finalized"

====
